---- MODULE Spec2Model ----
(***************************************************************************)
(* Model of src/action.py: the ENA sample registration action.             *)
(*                                                                         *)
(* Two specifications share this module.                                   *)
(*   Spec     the batch loop of __main__ with generate_ena_accession_      *)
(*            numbers, retrieve_metadata and get_ean_from_ebi, run after   *)
(*            run against the same ledger file.                            *)
(*   MapSpec  get_sample_xml's attribute mapping (checklist filter, fixed  *)
(*            attributes, rule loop, add_attribute) over drawn inputs.     *)
(*                                                                         *)
(* Conventions.  A source_material_id is kept as the sequence of its       *)
(* "_"-separated tokens, so smi.split("_") is the sequence itself and      *)
(* smi.split("_")[k] is smi[k+1].  A tax_id is kept as the sequence of     *)
(* its "="-separated tokens in the same way.  Python's None is the string  *)
(* None for scalars and the record NoFrame for data frames; a float NaN    *)
(* cell is the string NaN.                                                 *)
(***************************************************************************)
EXTENDS Integers, Sequences, FiniteSets, TLC

VARIABLES
    \* ---- batch loop (Spec) ----
    df_run_info,   \* the run manifest, read once per run (line 219)
    ena_csv,       \* the ledger file: the rows of text it holds
    df_ena,        \* the ledger in memory (lines 220-233, 241)
    run,           \* number of runs started
    pc,            \* position of the process
    idx,           \* position of iterrows() in df_run_info
    sheets,        \* what each metadata source served for the sample in hand
    dfs,           \* retrieve_metadata's results for the sample in hand
    sample,        \* the SAMPLE_SET built by get_sample_xml, or NoFrame
    response,      \* what the registration endpoint answered
    lookup,        \* what the registry lookup answered
    ean,           \* get_ean_from_ebi's return value
    eans,          \* generate_ena_accession_numbers' return value
    registry,      \* aliases registered at the remote service
    error,         \* the exception that ended the run, "" if none
    \* ---- history (Spec) ----
    fetches,       \* metadata fetches made in this run
    posts,         \* POSTs made in this run, per sample
    lookups,       \* lookup queries made in this run, per sample
    skipAtStart,   \* source_material_ids in the ledger when the run started
    resolved,      \* samples whose accession was resolved in this run
    \* ---- attribute mapping (MapSpec) ----
    checklist_csv, \* the checklist translation table as published
    df_checklist,  \* the table after the include filter (lines 33-37)
    habitat,       \* "sediment" or "water"
    cells,         \* the resolved rows: <<sheet, column>> -> cell
    attributes,    \* the SAMPLE_ATTRIBUTES built so far
    mpc,           \* position in get_sample_xml
    midx           \* position of iterrows() in df_checklist

batchVars == <<df_run_info, ena_csv, df_ena, run, pc, idx, sheets, dfs, sample,
               response, lookup, ean, eans, registry, error, fetches, posts,
               lookups, skipAtStart, resolved>>
mapVars == <<checklist_csv, df_checklist, habitat, cells, attributes, mpc, midx>>
vars == <<batchVars, mapVars>>

---------------------------------------------------------------------------
\* Bounds of the model.
MaxManifest == 2
MaxRuns == 2
MaxRules == 2
MaxFaults == 1

\* Python values.
None == "<None>"
NaN == "<NaN>"
NoFrame == [none |-> TRUE]
Frame(r) == [none |-> FALSE, row |-> r]

---------------------------------------------------------------------------
\* The run manifests (run-information-<batch>.csv) the model draws from.
ManifestRows ==
    { [source_material_id |-> <<"EMOBON", "BPNS", "So", "210601">>,
       ref_code |-> "EMOBON00001", ref_code_seq |-> "SEQ00001"],
      [source_material_id |-> <<"EMOBON", "BPNS", "Wa", "210602">>,
       ref_code |-> "EMOBON00002", ref_code_seq |-> NaN],
      [source_material_id |-> <<"EMOBON", "VB", "Wa", "210603">>,
       ref_code |-> "EMOBON00003", ref_code_seq |-> "SEQ00003"],
      [source_material_id |-> <<"EMOBON", "BPNS", "Be", "210604">>,
       ref_code |-> "EMOBON00004", ref_code_seq |-> "SEQ00004"] }

SeqsUpTo(S, n) == UNION { [1..k -> S] : k \in 1..n }

Manifests == SeqsUpTo(ManifestRows, MaxManifest)

Smis == { r.source_material_id : r \in ManifestRows }

---------------------------------------------------------------------------
\* pandas' CSV conversions, as the ledger goes through them.

\* The strings pd.read_csv turns into NaN by default (keep_default_na=True).
NaValues ==
    {"", "#N/A", "#N/A N/A", "#NA", "-1.#IND", "-1.#QNAN", "-NaN", "-nan",
     "1.#IND", "1.#QNAN", "<NA>", "N/A", "NA", "NULL", "NaN", "None", "n/a",
     "nan", "null"}

\* One cell of text as pd.read_csv(path) loads it.
read_cell(text) == IF text \in NaValues THEN NaN ELSE text

\* One cell as DataFrame.to_csv writes it (na_rep = "").
to_cell(value) == IF value = NaN THEN "" ELSE value

\* The columns of the ledger other than source_material_id.
LedgerColumns ==
    {"ref_code", "ref_code_seq", "ena_accession_number_sample",
     "ena_accession_number_project", "ena_accession_number_umbrella",
     "biosamples_accession_number"}

\* df_ena = pd.read_csv(ena_csv_path), or the empty frame when the file is absent.
read_csv(file) ==
    [i \in 1..Len(file) |->
        [c \in DOMAIN file[i] |->
            IF c \in LedgerColumns THEN read_cell(file[i][c]) ELSE file[i][c]]]

\* df_ena.to_csv(ena_csv_path, index=False): the whole frame, written anew.
to_csv(df) ==
    [i \in 1..Len(df) |->
        [c \in DOMAIN df[i] |->
            IF c \in LedgerColumns THEN to_cell(df[i][c]) ELSE df[i][c]]]

\* df_ena["source_material_id"].to_list()
LedgerSmis(df) == { df[i].source_material_id : i \in 1..Len(df) }

---------------------------------------------------------------------------
\* The batch loop's tests.

Contains(smi, token) == \E k \in 1..Len(smi) : smi[k] = token

\* Line 238 without the ledger test.
NeedsProcessingNoLedger(smi, df) == Contains(smi, "BPNS")

\* Line 238: a row is handled when its id is not in the ledger and is a BPNS one.
NeedsProcessing(smi, df) == smi \notin LedgerSmis(df) /\ Contains(smi, "BPNS")

Truthy(x) == x # None /\ x # ""

\* Line 240 testing only that a tuple came back.
ShouldAppendNotNone(r) == ~r.none

\* Line 240: eans and all(eans).
ShouldAppend(r) == ~r.none /\ \A k \in 1..Len(r.row) : Truthy(r.row[k])

\* Lines 241-252: the row appended for a sample.
LedgerRow(row, t) ==
    [source_material_id |-> row.source_material_id,
     ref_code |-> row.ref_code,
     ref_code_seq |-> row.ref_code_seq,
     ena_accession_number_sample |-> t[1],
     ena_accession_number_project |-> t[2],
     ena_accession_number_umbrella |-> t[3],
     biosamples_accession_number |-> t[4]]

---------------------------------------------------------------------------
\* Metadata sources and retrieve_metadata.

SheetNames == <<"measured", "observatory", "sampling", "governance">>

\* Lines 52, 58, 65, 71: the filter column each call passes.
FilterColumn(sheet) ==
    CASE sheet = "measured" -> "source_mat_id"
      [] sheet = "observatory" -> None
      [] sheet = "sampling" -> "source_mat_id"
      [] sheet = "governance" -> "EMOBON_observatory_id"

SamplingRows ==
    { [tax_id |-> <<"NCBI:txid", "1874687">>, scientific_name |-> "marine sediment metagenome"],
      [tax_id |-> <<"1874687">>, scientific_name |-> "marine sediment metagenome"] }

GovernanceRows ==
    { [ENA_accession_number_project |-> "PRJEB51688", ENA_accession_number_umbrella |-> "PRJEB51661"],
      [ENA_accession_number_project |-> "", ENA_accession_number_umbrella |-> "PRJEB51661"],
      [ENA_accession_number_project |-> "PRJEB51688", ENA_accession_number_umbrella |-> "NA"] }

RowsOf(sheet) ==
    CASE sheet = "sampling" -> SamplingRows
      [] sheet = "governance" -> GovernanceRows
      [] OTHER -> { [sheet |-> sheet] }

\* What a source can serve: a transport error, or a table of which `rows` match
\* the key (the whole table when no filter column is passed); has_key tells
\* whether the table has the filter column at all.
Served(sheet) ==
    { [error |-> e, has_key |-> TRUE, rows |-> <<>>] : e \in {"HTTPError", "URLError"} }
    \cup { [error |-> "", has_key |-> TRUE, rows |-> <<r>>] : r \in RowsOf(sheet) }
    \cup { [error |-> "", has_key |-> TRUE, rows |-> rs] :
             rs \in { <<>>, <<CHOOSE r \in RowsOf(sheet) : TRUE, CHOOSE r \in RowsOf(sheet) : TRUE>> } }
    \cup { [error |-> "", has_key |-> FALSE, rows |-> <<CHOOSE r \in RowsOf(sheet) : TRUE>>] }

\* retrieve_metadata without the one-row assertion of line 88.
retrieve_metadata_unchecked(served, filter_column) ==
    IF served.error = "HTTPError" THEN [raise |-> "", df |-> NoFrame]
    ELSE IF served.error # "" THEN [raise |-> served.error, df |-> NoFrame]
    ELSE IF filter_column # None /\ ~served.has_key THEN [raise |-> "KeyError", df |-> NoFrame]
    ELSE IF Len(served.rows) >= 1 THEN [raise |-> "", df |-> Frame(served.rows[1])]
    ELSE [raise |-> "", df |-> NoFrame]

\* retrieve_metadata (lines 83-93): [raise |-> the exception that escapes, "" if
\* none; df |-> the frame returned, NoFrame for None].
retrieve_metadata(served, filter_column) ==
    IF served.error = "HTTPError" THEN [raise |-> "", df |-> NoFrame]
    ELSE IF served.error # "" THEN [raise |-> served.error, df |-> NoFrame]
    ELSE IF filter_column # None /\ ~served.has_key THEN [raise |-> "KeyError", df |-> NoFrame]
    ELSE IF Len(served.rows) = 1 THEN [raise |-> "", df |-> Frame(served.rows[1])]
    ELSE [raise |-> "", df |-> NoFrame]

\* Line 44: {"So": "sediment", "Wa": "water"}[smi.split("_")[2]]
HabitatOf(smi) ==
    CASE smi[3] = "So" -> "sediment"
      [] smi[3] = "Wa" -> "water"
      [] OTHER -> None

\* Line 45: df_run_info[df_run_info["source_material_id"] == smi]
Sequencing(df, smi) == SelectSeq(df, LAMBDA r : r.source_material_id = smi)

---------------------------------------------------------------------------
\* The registration endpoint and the registry lookup, as get_ean_from_ebi sees them.

AccessionFor(alias) ==
    CASE alias = "EMOBON00001" -> "ERS0000001"
      [] alias = "EMOBON00002" -> "ERS0000002"
      [] OTHER -> "ERS0000009"

\* What requests.post can come back with. raised: the exception requests.post
\* raises; wellformed: whether the body parses to a receipt with a success
\* attribute and, on success, a SAMPLE element; ext_id: the accession of the
\* EXT_ID child, None when the receipt has no such child.
Responses(alias, registered) ==
    { [raised |-> "ConnectionError", content_type |-> None, wellformed |-> FALSE,
       success |-> None, accession |-> None, ext_id |-> None] }
    \cup { [raised |-> "", content_type |-> "text/html", wellformed |-> FALSE,
            success |-> None, accession |-> None, ext_id |-> None] }
    \cup { [raised |-> "", content_type |-> "application/xml", wellformed |-> FALSE,
            success |-> None, accession |-> None, ext_id |-> None] }
    \cup { [raised |-> "", content_type |-> "application/xml", wellformed |-> TRUE,
            success |-> "false", accession |-> None, ext_id |-> None] }
    \cup { [raised |-> "", content_type |-> "application/xml", wellformed |-> TRUE,
            success |-> "true", accession |-> AccessionFor(alias), ext_id |-> x] :
             x \in IF alias \in registered THEN {} ELSE {"SAMEA0000001", None} }

\* What the lookup's pd.read_csv(url, sep="\t") can come back with.
LookupResults(alias) ==
    { [raised |-> "HTTPError", rows |-> <<>>] }
    \cup { [raised |-> "", rows |-> [k \in 1..n |-> [sample_accession |-> AccessionFor(alias)]]] :
             n \in 0..2 }

\* Lines 191-198 without the one-row assertion.
RecoverFirstRow(found) ==
    IF found.raised = "" /\ Len(found.rows) >= 1
    THEN <<read_cell(found.rows[1].sample_accession), "not found">>
    ELSE <<None, None>>

\* Lines 191-198: the recovery after success="false".
Recover(found) ==
    IF found.raised = "" /\ Len(found.rows) = 1
    THEN <<read_cell(found.rows[1].sample_accession), "not found">>
    ELSE <<None, None>>

\* Lines 104-117: the identity part of the SAMPLE element.
SampleElement(row, df_sampling) ==
    [alias |-> row.ref_code,
     title |-> row.source_material_id,
     taxon_id |-> df_sampling.row.tax_id[2],
     scientific_name |-> df_sampling.row.scientific_name]

---------------------------------------------------------------------------
\* The batch loop.

Row == df_run_info[idx]
Smi == Row.source_material_id

NoCounts == [s \in Smis |-> 0]

\* The state of the sample in hand, before anything was done for it.
ClearSample ==
    /\ sheets' = <<>>
    /\ dfs' = <<>>
    /\ sample' = NoFrame
    /\ response' = NoFrame
    /\ lookup' = NoFrame
    /\ ean' = <<>>
    /\ eans' = NoFrame

KeepSample == UNCHANGED <<sheets, dfs, sample, response, lookup, ean, eans>>

Abort(exception) ==
    /\ pc' = "aborted"
    /\ error' = exception

BatchInit ==
    /\ df_run_info \in Manifests
    /\ ena_csv = <<>>
    /\ df_ena = <<>>
    /\ run = 0
    /\ pc = "idle"
    /\ idx = 1
    /\ sheets = <<>>
    /\ dfs = <<>>
    /\ sample = NoFrame
    /\ response = NoFrame
    /\ lookup = NoFrame
    /\ ean = <<>>
    /\ eans = NoFrame
    /\ registry = {}
    /\ error = ""
    /\ fetches = 0
    /\ posts = NoCounts
    /\ lookups = NoCounts
    /\ skipAtStart = {}
    /\ resolved = {}

\* Lines 219-233: a run starts; the ledger is read from its file.
StartRun ==
    /\ pc \in {"idle", "done", "aborted"}
    /\ run < MaxRuns
    /\ run' = run + 1
    /\ df_ena' = read_csv(ena_csv)
    /\ skipAtStart' = LedgerSmis(read_csv(ena_csv))
    /\ idx' = 1
    /\ pc' = "loop"
    /\ error' = ""
    /\ fetches' = 0
    /\ posts' = NoCounts
    /\ lookups' = NoCounts
    /\ resolved' = {}
    /\ ClearSample
    /\ UNCHANGED <<df_run_info, ena_csv, registry, mapVars>>

\* Line 234: iterrows() is exhausted.
LoopEnd ==
    /\ pc = "loop"
    /\ idx > Len(df_run_info)
    /\ pc' = "done"
    /\ UNCHANGED <<df_run_info, ena_csv, df_ena, run, idx, registry, error, fetches,
                   posts, lookups, skipAtStart, resolved, mapVars>>
    /\ KeepSample

\* Lines 235-238: the row is in the ledger, or is not a BPNS one.
SkipRow ==
    /\ pc = "loop"
    /\ idx <= Len(df_run_info)
    /\ ~NeedsProcessing(Smi, df_ena)
    /\ idx' = idx + 1
    /\ UNCHANGED <<df_run_info, ena_csv, df_ena, run, pc, registry, error, fetches,
                   posts, lookups, skipAtStart, resolved, mapVars>>
    /\ KeepSample

\* Lines 238-239: generate_ena_accession_numbers is called for the row.
TakeRow ==
    /\ pc = "loop"
    /\ idx <= Len(df_run_info)
    /\ NeedsProcessing(Smi, df_ena)
    /\ pc' = "generate"
    /\ UNCHANGED <<df_run_info, ena_csv, df_ena, run, idx, registry, error, fetches,
                   posts, lookups, skipAtStart, resolved, mapVars>>
    /\ KeepSample

---------------------------------------------------------------------------
\* generate_ena_accession_numbers.

Fetched(sv, k) == retrieve_metadata(sv[k], FilterColumn(SheetNames[k]))

\* The calls of lines 48-72 whose exception escapes retrieve_metadata.
Raising(sv) == { k \in 1..Len(sv) : Fetched(sv, k).raise # "" }

FirstRaising(sv) == CHOOSE k \in Raising(sv) : \A j \in Raising(sv) : k <= j

\* A source that serves exactly one row for the key.
Nominal(served) == served.error = "" /\ served.has_key /\ Len(served.rows) = 1

\* What the four sources serve for one sample: at most MaxFaults of them serve
\* anything other than exactly one row.
AllServed ==
    { sv \in Served("measured") \X Served("observatory") \X Served("sampling") \X Served("governance") :
        Cardinality({ k \in 1..4 : ~Nominal(sv[k]) }) <= MaxFaults }

\* Lines 43-46: the habitat token is not a key of the dict, or the manifest
\* holds the id more than once; the exception leaves the loop.
IdentityError ==
    /\ pc = "generate"
    /\ HabitatOf(Smi) = None \/ Len(Sequencing(df_run_info, Smi)) # 1
    /\ Abort(IF HabitatOf(Smi) = None THEN "KeyError:habitat" ELSE "AssertionError:manifest")
    /\ UNCHANGED <<df_run_info, ena_csv, df_ena, run, idx, registry, fetches,
                   posts, lookups, skipAtStart, resolved, mapVars>>
    /\ KeepSample

\* Lines 48-72: the four sources are fetched, each through retrieve_metadata.
Resolve ==
    /\ pc = "generate"
    /\ HabitatOf(Smi) # None
    /\ Len(Sequencing(df_run_info, Smi)) = 1
    /\ \E sv \in AllServed :
        /\ Raising(sv) = {}
        /\ sheets' = sv
        /\ dfs' = [k \in 1..4 |-> Fetched(sv, k).df]
    /\ fetches' = fetches + 4
    /\ pc' = "resolved"
    /\ UNCHANGED <<df_run_info, ena_csv, df_ena, run, idx, registry, error,
                   posts, lookups, skipAtStart, resolved, mapVars>>
    /\ UNCHANGED <<sample, response, lookup, ean, eans>>

\* Lines 48-72, when a fetch raises what retrieve_metadata does not catch.
ResolveRaise ==
    /\ pc = "generate"
    /\ HabitatOf(Smi) # None
    /\ Len(Sequencing(df_run_info, Smi)) = 1
    /\ \E sv \in AllServed :
        /\ Raising(sv) # {}
        /\ LET k == FirstRaising(sv) IN
            /\ sheets' = SubSeq(sv, 1, k)
            /\ dfs' = [j \in 1..(k - 1) |-> Fetched(sv, j).df]
            /\ fetches' = fetches + k
            /\ Abort(Fetched(sv, k).raise)
    /\ UNCHANGED <<df_run_info, ena_csv, df_ena, run, idx, registry,
                   posts, lookups, skipAtStart, resolved, mapVars>>
    /\ UNCHANGED <<sample, response, lookup, ean, eans>>

\* Line 74: the guard of the submission.
AllResolved(d) == \A k \in 1..Len(d) : ~d[k].none

\* Line 74 false: the function falls off its end and returns None.
ReturnNone ==
    /\ pc = "resolved"
    /\ ~AllResolved(dfs)
    /\ eans' = NoFrame
    /\ pc' = "record"
    /\ UNCHANGED <<df_run_info, ena_csv, df_ena, run, idx, registry, error, fetches,
                   posts, lookups, skipAtStart, resolved, mapVars>>
    /\ UNCHANGED <<sheets, dfs, sample, response, lookup, ean>>

\* Lines 75-76: get_submission_xml and get_sample_xml. tax_id.split("=")[1]
\* raises IndexError when the field holds no "=".
BuildSample ==
    /\ pc = "resolved"
    /\ AllResolved(dfs)
    /\ IF Len(dfs[3].row.tax_id) >= 2
       THEN /\ sample' = Frame(SampleElement(Row, dfs[3]))
            /\ pc' = "post"
            /\ error' = error
       ELSE /\ sample' = sample
            /\ Abort("IndexError:tax_id")
    /\ UNCHANGED <<df_run_info, ena_csv, df_ena, run, idx, registry, fetches,
                   posts, lookups, skipAtStart, resolved, mapVars>>
    /\ UNCHANGED <<sheets, dfs, response, lookup, ean, eans>>

---------------------------------------------------------------------------
\* get_ean_from_ebi.

\* Lines 174-183: the POST raised, or the answer is not application/xml.
TransportFailed(r) == r.raised # "" \/ r.content_type # "application/xml"

\* Lines 162-189: one POST to the registration endpoint and the reading of its
\* answer.
Post ==
    /\ pc = "post"
    /\ \E r \in Responses(sample.row.alias, registry) :
        /\ response' = r
        /\ registry' = IF r.success = "true" THEN registry \cup {sample.row.alias} ELSE registry
        /\ IF TransportFailed(r)
           THEN ean' = <<None, None>> /\ pc' = "finish" /\ error' = error
           ELSE IF ~r.wellformed
           THEN ean' = ean /\ Abort("ParseError")
           ELSE IF r.success = "true"
           THEN IF r.ext_id = None
                THEN ean' = ean /\ Abort("AttributeError:EXT_ID")
                ELSE ean' = <<r.accession, r.ext_id>> /\ pc' = "finish" /\ error' = error
           ELSE ean' = ean /\ pc' = "lookup" /\ error' = error
    /\ posts' = [posts EXCEPT ![Smi] = @ + 1]
    /\ UNCHANGED <<df_run_info, ena_csv, df_ena, run, idx, fetches,
                   lookups, skipAtStart, resolved, mapVars>>
    /\ UNCHANGED <<sheets, dfs, sample, lookup, eans>>

\* Lines 190-198: success="false"; the registry is asked for the alias.
Lookup ==
    /\ pc = "lookup"
    /\ \E found \in LookupResults(sample.row.alias) :
        /\ lookup' = found
        /\ ean' = Recover(found)
    /\ lookups' = [lookups EXCEPT ![Smi] = @ + 1]
    /\ pc' = "finish"
    /\ UNCHANGED <<df_run_info, ena_csv, df_ena, run, idx, registry, error, fetches,
                   posts, skipAtStart, resolved, mapVars>>
    /\ UNCHANGED <<sheets, dfs, sample, response, eans>>

\* Lines 77-80: the four accession numbers are returned.
Return ==
    /\ pc = "finish"
    /\ eans' = Frame(<<ean[1],
                       dfs[4].row.ENA_accession_number_project,
                       dfs[4].row.ENA_accession_number_umbrella,
                       ean[2]>>)
    /\ resolved' = IF ean[1] # None THEN resolved \cup {Smi} ELSE resolved
    /\ pc' = "record"
    /\ UNCHANGED <<df_run_info, ena_csv, df_ena, run, idx, registry, error, fetches,
                   posts, lookups, skipAtStart, mapVars>>
    /\ UNCHANGED <<sheets, dfs, sample, response, lookup, ean>>

---------------------------------------------------------------------------
\* Lines 240-256: the ledger row.

\* Lines 241-253: the row is appended and the whole frame written to the file.
AppendRow ==
    /\ pc = "record"
    /\ ShouldAppend(eans)
    /\ df_ena' = Append(df_ena, LedgerRow(Row, eans.row))
    /\ ena_csv' = to_csv(Append(df_ena, LedgerRow(Row, eans.row)))
    /\ idx' = idx + 1
    /\ pc' = "loop"
    /\ ClearSample
    /\ UNCHANGED <<df_run_info, run, registry, error, fetches, posts, lookups,
                   skipAtStart, resolved, mapVars>>

\* Lines 255-256: nothing is recorded for the row.
NoRow ==
    /\ pc = "record"
    /\ ~ShouldAppend(eans)
    /\ idx' = idx + 1
    /\ pc' = "loop"
    /\ ClearSample
    /\ UNCHANGED <<df_run_info, ena_csv, df_ena, run, registry, error, fetches, posts,
                   lookups, skipAtStart, resolved, mapVars>>

BatchNext ==
    \/ StartRun
    \/ LoopEnd
    \/ SkipRow
    \/ TakeRow
    \/ IdentityError
    \/ Resolve
    \/ ResolveRaise
    \/ ReturnNone
    \/ BuildSample
    \/ Post
    \/ Lookup
    \/ Return
    \/ AppendRow
    \/ NoRow

---------------------------------------------------------------------------
\* get_sample_xml's attribute mapping (MapSpec).

\* The rows a checklist translation table is drawn from: each ENA term with
\* the sheet and column it is read from, its units (NaN when the cell is
\* empty) and its include flag.
ChecklistTerms ==
    { [ENA_term |-> "tidal stage", EMO_BON_sheet |-> "sampling", EMO_BON_term |-> "tidal_stage", units |-> NaN],
      [ENA_term |-> "sequence quality check", EMO_BON_sheet |-> "sequencing", EMO_BON_term |-> "seq_quality_check", units |-> NaN],
      [ENA_term |-> "depth", EMO_BON_sheet |-> "measured", EMO_BON_term |-> "depth", units |-> "m"],
      [ENA_term |-> "elevation", EMO_BON_sheet |-> "observatory", EMO_BON_term |-> "elevation", units |-> "m"],
      [ENA_term |-> "negative control type", EMO_BON_sheet |-> "sequencing", EMO_BON_term |-> "neg_cont_type", units |-> NaN] }

ChecklistRows ==
    { [ENA_term |-> t.ENA_term, EMO_BON_sheet |-> t.EMO_BON_sheet, EMO_BON_term |-> t.EMO_BON_term,
       units |-> t.units, include |-> f] : t \in ChecklistTerms, f \in {"Y", "N"} }

Checklists == SeqsUpTo(ChecklistRows, MaxRules)

\* The cells of the resolved rows. The metadata sheets are read as text
\* (dtype=object, keep_default_na=False); the sequencing row comes from the
\* manifest, read with the defaults, so an empty cell of it is NaN.
CellValues(sheet, column) ==
    CASE column = "tidal_stage" -> {"ebb_tide", "flood_tide", "low_tide", "high_tide", "no_tide", "NA"}
      [] column = "seq_quality_check" -> {"passed", NaN}
      [] column = "depth" -> {"5", "", "NA"}
      [] column = "elevation" -> {"12"}
      [] column = "neg_cont_type" -> {"empty collection device", NaN}

Columns == { <<t.EMO_BON_sheet, t.EMO_BON_term>> : t \in ChecklistTerms }

Rows ==
    { [c \in Columns |->
         CASE c[2] = "tidal_stage" -> tide
           [] c[2] = "seq_quality_check" -> check
           [] c[2] = "depth" -> depth
           [] c[2] = "elevation" -> elevation
           [] c[2] = "neg_cont_type" -> control] :
        tide \in CellValues("sampling", "tidal_stage"),
        check \in CellValues("sequencing", "seq_quality_check"),
        depth \in CellValues("measured", "depth"),
        elevation \in CellValues("observatory", "elevation"),
        control \in CellValues("sequencing", "neg_cont_type") }

\* Lines 34, 37 without the filter.
IncludeAll(table) == table

\* Lines 34, 37: ERC0000xx[ERC0000xx["include"] == "Y"]
IncludeFilter(table) == SelectSeq(table, LAMBDA r : r.include = "Y")

\* Python's str() of a cell.
Str(cell) == IF cell = NaN THEN "nan" ELSE cell

\* Line 138: if pd.isna(units): units = None
UnitsOf(units) == IF units = NaN THEN None ELSE units

\* Lines 139-144: the corrections, in the order the code applies them.
Normalize(tag, value) ==
    LET v1 == IF tag = "sequence quality check" THEN "manual" ELSE value
        v2 == IF tag = "tidal stage" /\ v1 = "ebb_tide" THEN "low" ELSE v1
        v3 == IF tag = "tidal stage" /\ v2 = "flood_tide" THEN "high" ELSE v2
        v4 == IF tag = "tidal stage" /\ v3 = "low_tide" THEN "low" ELSE v3
        v5 == IF tag = "tidal stage" /\ v4 = "high_tide" THEN "high" ELSE v4
        v6 == IF tag = "tidal stage" /\ v5 = "no_tide" THEN "" ELSE v5
    IN v6

\* Line 145 without "nan".
DroppedBlankOnly(value) == value \in {"", "NA"}

\* Line 145: the values that are not submitted.
Dropped(value) == value \in {"", "NA", "nan"}

\* add_attribute (lines 151-159): UNITS is set only for truthy units.
add_attribute(element, tag, value, units) ==
    Append(element, [tag |-> tag, value |-> value,
                     units |-> IF Truthy(units) THEN units ELSE None])

\* Lines 119-125: the attributes emitted before the rule loop.
FixedAttributes(h) ==
    IF h = "sediment"
    THEN add_attribute(add_attribute(<<>>, "ENA-CHECKLIST", "ERC000021", None), "elevation", "0", "m")
    ELSE add_attribute(<<>>, "ENA-CHECKLIST", "ERC000024", None)

MapIdle ==
    /\ checklist_csv = <<>>
    /\ df_checklist = <<>>
    /\ habitat = "water"
    /\ cells = <<>>
    /\ attributes = <<>>
    /\ mpc = "idle"
    /\ midx = 1

MapInit ==
    /\ checklist_csv \in Checklists
    /\ df_checklist = <<>>
    /\ habitat \in {"sediment", "water"}
    /\ cells \in Rows
    /\ attributes = <<>>
    /\ mpc = "import"
    /\ midx = 1

\* Lines 33-37: the checklist table is loaded and filtered, once per process.
LoadChecklist ==
    /\ mpc = "import"
    /\ df_checklist' = IncludeFilter(checklist_csv)
    /\ mpc' = "ready"
    /\ UNCHANGED <<checklist_csv, habitat, cells, attributes, midx, batchVars>>

\* Lines 117-132: the fixed attributes, and the checklist of the habitat.
BeginAttributes ==
    /\ mpc = "ready"
    /\ attributes' = FixedAttributes(habitat)
    /\ midx' = 1
    /\ mpc' = "rules"
    /\ UNCHANGED <<checklist_csv, df_checklist, habitat, cells, batchVars>>

\* Lines 134-146: one row of the checklist.
ApplyRule ==
    /\ mpc = "rules"
    /\ midx <= Len(df_checklist)
    /\ LET row == df_checklist[midx]
           tag == row.ENA_term
           value == Normalize(tag, Str(cells[<<row.EMO_BON_sheet, row.EMO_BON_term>>]))
       IN  /\ attributes' = IF Dropped(value) THEN attributes
                            ELSE add_attribute(attributes, tag, value, UnitsOf(row.units))
    /\ midx' = midx + 1
    /\ UNCHANGED <<checklist_csv, df_checklist, habitat, cells, mpc, batchVars>>

\* Line 148: the rows are exhausted and the sample set is returned.
EndAttributes ==
    /\ mpc = "rules"
    /\ midx > Len(df_checklist)
    /\ mpc' = "built"
    /\ UNCHANGED <<checklist_csv, df_checklist, habitat, cells, attributes, midx, batchVars>>

BatchIdle ==
    /\ df_run_info = <<>>
    /\ ena_csv = <<>>
    /\ df_ena = <<>>
    /\ run = 0
    /\ pc = "idle"
    /\ idx = 1
    /\ sheets = <<>>
    /\ dfs = <<>>
    /\ sample = NoFrame
    /\ response = NoFrame
    /\ lookup = NoFrame
    /\ ean = <<>>
    /\ eans = NoFrame
    /\ registry = {}
    /\ error = ""
    /\ fetches = 0
    /\ posts = NoCounts
    /\ lookups = NoCounts
    /\ skipAtStart = {}
    /\ resolved = {}

MapNext ==
    \/ LoadChecklist
    \/ BeginAttributes
    \/ ApplyRule
    \/ EndAttributes

MapInitial == MapInit /\ BatchIdle

MapSpec == MapInitial /\ [][MapNext]_vars

Init == BatchInit /\ MapIdle

Next == BatchNext

Spec == Init /\ [][Next]_vars

---------------------------------------------------------------------------
\* Claims about the batch loop (Spec).

InHand == pc \in {"generate", "resolved", "post", "lookup", "finish", "record"}

\* The answer of the registration endpoint was read as a receipt.
Answered == response # NoFrame /\ ~TransportFailed(response) /\ response.wellformed

\* C1: the ledger test on source_material_id comes before every other step: a
\* row whose id is in the ledger is passed over with no metadata fetch and no
\* POST, and a run whose manifest is all in the ledger when it starts makes no
\* fetch and no POST at all.
LedgerTestComesFirst ==
    /\ [][(pc = "loop" /\ idx <= Len(df_run_info) /\ Smi \in LedgerSmis(df_ena))
            => (pc' = "loop" /\ idx' = idx + 1 /\ fetches' = fetches /\ posts' = posts
                /\ registry' = registry)]_vars
    /\ [](run >= 1 /\ (\A i \in 1..Len(df_run_info) : df_run_info[i].source_material_id \in skipAtStart)
            => (fetches = 0 /\ posts = NoCounts))

\* C1 witness: a second run has gone through a manifest of BPNS samples that
\* were all in the ledger when it started.
LedgerTestWitness ==
    /\ pc = "done"
    /\ run = 2
    /\ Len(df_run_info) = 2
    /\ \A i \in 1..Len(df_run_info) :
        /\ df_run_info[i].source_material_id \in skipAtStart
        /\ Contains(df_run_info[i].source_material_id, "BPNS")

\* C2 (as claimed): the run is ended only by missing identity fields or by a
\* malformed manifest, never by an error met while processing a sample.
NoSampleErrorAborts ==
    pc = "aborted" => error \in {"KeyError:habitat", "AssertionError:manifest", "IndexError:tax_id"}

\* A sample's processing has ended in a failure: a source not resolved, a
\* transport failure of the submission, or a rejection not recovered.
SampleFailed ==
    \/ \E k \in 1..Len(dfs) : dfs[k].none
    \/ response # NoFrame /\ TransportFailed(response)
    \/ /\ Answered
       /\ response.success = "false"
       /\ lookup # NoFrame
       /\ ~(lookup.raised = "" /\ Len(lookup.rows) = 1)

\* C3: a sample whose processing ends in a failure leaves the ledger as it
\* was, in memory and in the file, and is not in the skip-set read from the
\* file afterwards; no step taken for a sample before its row is recorded, and
\* no step that ends the run, changes the ledger.
FailureLeavesLedger ==
    [][/\ (pc = "record" /\ SampleFailed)
            => (df_ena' = df_ena /\ ena_csv' = ena_csv
                /\ Smi \notin LedgerSmis(read_csv(ena_csv')))
       /\ ((InHand /\ pc # "record") \/ pc' = "aborted")
            => (df_ena' = df_ena /\ ena_csv' = ena_csv)]_vars

\* C3 witness: in a second run, with a row already in the ledger file, the
\* submission of a sample has failed in transport and its outcome is about to
\* be recorded.
FailureWitness ==
    /\ pc = "record"
    /\ run = 2
    /\ Len(ena_csv) = 1
    /\ response # NoFrame
    /\ TransportFailed(response)

\* C4: after success="false" nothing is submitted again: at most one POST and
\* one lookup are made per sample per run, the lookup follows the one POST,
\* and the sample accession of the lookup's row is returned exactly when the
\* lookup has exactly one row.
RejectionIsRecoveredOnce ==
    /\ \A s \in Smis : posts[s] <= 1 /\ lookups[s] <= 1 /\ lookups[s] <= posts[s]
    /\ (pc \in {"finish", "record"} /\ Answered /\ response.success = "false")
        => /\ posts[Smi] = 1
           /\ lookups[Smi] = 1
           /\ IF lookup.raised = "" /\ Len(lookup.rows) = 1
              THEN ean[1] = lookup.rows[1].sample_accession
              ELSE ean[1] = None

\* C4 witness: a rejected submission was recovered from a lookup of one row.
RejectionWitness ==
    /\ pc = "finish"
    /\ Answered
    /\ response.success = "false"
    /\ Len(lookup.rows) = 1
    /\ ean[1] = AccessionFor(Row.ref_code)

\* C5 (as claimed): a receipt with success="true" is an accepted success with
\* or without an external accession: the run goes on, the sample accession is
\* returned, with the external accession when there is one, and the sample
\* gets its ledger row.
SuccessIsAccepted ==
    (Answered /\ response.success = "true")
        => /\ pc # "aborted"
           /\ pc \in {"finish", "record"} => ean[1] = response.accession
           /\ (pc \in {"finish", "record"} /\ response.ext_id # None) => ean[2] = response.ext_id
           /\ pc = "record" => ShouldAppend(eans)

\* A source resolved to zero rows or to more than one row.
CardinalityFault(served, filter_column) ==
    /\ served.error = ""
    /\ filter_column = None \/ served.has_key
    /\ Len(served.rows) # 1

\* C6: when a source of a sample resolves to zero rows or to more than one,
\* the resolver returns no row for it, and no sample envelope is built, no
\* POST is made and no ledger row is appended for the sample, in any step of
\* the run that has the sample in hand.
CardinalitySkipsSample ==
    /\ [](\A k \in 1..Len(dfs) :
            CardinalityFault(sheets[k], FilterColumn(SheetNames[k]))
                => /\ dfs[k].none
                   /\ sample = NoFrame
                   /\ posts[Smi] = 0
                   /\ Smi \notin LedgerSmis(df_ena)
                   /\ Smi \notin LedgerSmis(ena_csv))
    /\ [][(InHand /\ \E k \in 1..Len(dfs) : CardinalityFault(sheets[k], FilterColumn(SheetNames[k])))
            => (df_ena' = df_ena /\ ena_csv' = ena_csv /\ posts' = posts)]_vars

\* C6 witness: a source served two rows for the key and the sample's outcome
\* is about to be recorded.
CardinalityWitness ==
    /\ pc = "record"
    /\ \E k \in 1..Len(dfs) : sheets[k].error = "" /\ Len(sheets[k].rows) = 2

\* C7 (as claimed): a write leaves every row of the ledger file in place with
\* the same values, and adds at most one row at the end.
LedgerFileAppendOnly ==
    [][/\ Len(ena_csv') \in {Len(ena_csv), Len(ena_csv) + 1}
       /\ SubSeq(ena_csv', 1, Len(ena_csv)) = ena_csv]_vars

\* C8 (as claimed): between two samples, and when the run has ended, every
\* sample whose accession was resolved in the run has its row in the ledger
\* file.
ResolvedSamplesHaveRows ==
    pc \in {"loop", "done"} => \A s \in resolved : s \in LedgerSmis(ena_csv)

---------------------------------------------------------------------------
\* Claims about the attribute mapping (MapSpec).

Tags(attrs) == { attrs[j].tag : j \in 1..Len(attrs) }

Mapping == mpc \in {"rules", "built"}

\* The attributes appended by the rule loop.
LoopAttributes == SubSeq(attributes, Len(FixedAttributes(habitat)) + 1, Len(attributes))

\* C9 (as claimed): no attribute carries the ENA term of a checklist row whose
\* include flag is not set, the attributes emitted before the loop included.
ExcludedTermsAbsent ==
    \A i \in 1..Len(checklist_csv) :
        checklist_csv[i].include # "Y" => checklist_csv[i].ENA_term \notin Tags(attributes)

\* C9 (amended): every attribute appended by the rule loop carries the ENA
\* term of a row whose include flag is "Y"; so a term of an excluded row can
\* only be the tag of a fixed attribute or the term of an included row too.
LoopAttributesAreIncluded ==
    Mapping =>
        /\ \A j \in 1..Len(LoopAttributes) :
             \E i \in 1..Len(checklist_csv) :
                checklist_csv[i].include = "Y" /\ checklist_csv[i].ENA_term = LoopAttributes[j].tag
        /\ \A i \in 1..Len(checklist_csv) :
             (/\ checklist_csv[i].include # "Y"
              /\ checklist_csv[i].ENA_term \in Tags(attributes))
                => \/ checklist_csv[i].ENA_term \in Tags(FixedAttributes(habitat))
                   \/ \E k \in 1..Len(checklist_csv) :
                        /\ checklist_csv[k].include = "Y"
                        /\ checklist_csv[k].ENA_term = checklist_csv[i].ENA_term

\* C9 witness: a checklist with an excluded row has been mapped, the loop has
\* appended an attribute, and the excluded row's term is not among the tags.
ExcludedWitness ==
    /\ mpc = "built"
    /\ Len(LoopAttributes) >= 1
    /\ \E i \in 1..Len(checklist_csv) :
        /\ checklist_csv[i].include = "N"
        /\ checklist_csv[i].ENA_term \notin Tags(attributes)

\* The tide-stage corrections as a table.
TideStage(raw) ==
    CASE raw = "ebb_tide" -> "low"
      [] raw = "flood_tide" -> "high"
      [] raw = "low_tide" -> "low"
      [] raw = "high_tide" -> "high"
      [] raw = "no_tide" -> ""
      [] OTHER -> raw

\* The value a checklist row is to be submitted with.
Corrected(row) ==
    LET raw == cells[<<row.EMO_BON_sheet, row.EMO_BON_term>>]
        text == IF raw = NaN THEN "nan" ELSE raw
    IN  IF row.ENA_term = "sequence quality check" THEN "manual"
        ELSE IF row.ENA_term = "tidal stage" THEN TideStage(text)
        ELSE text

\* The rows handled so far whose corrected value is to be submitted.
Submitted ==
    SelectSeq(SubSeq(df_checklist, 1, midx - 1),
              LAMBDA r : Corrected(r) \notin {"", "NA", "nan"})

\* C10: no attribute has the value "", "NA" or "nan"; the attributes of the
\* rule loop are, in checklist order, those of the included rows whose
\* corrected value (tide stage mapped, sequence quality check forced to
\* manual) is none of the three, each with that value.
NoBlankAttributes ==
    /\ \A j \in 1..Len(attributes) : attributes[j].value \notin {"", "NA", "nan"}
    /\ Mapping =>
        /\ Len(LoopAttributes) = Len(Submitted)
        /\ \A j \in 1..Len(LoopAttributes) :
            /\ LoopAttributes[j].tag = Submitted[j].ENA_term
            /\ LoopAttributes[j].value = Corrected(Submitted[j])

\* C10 witness: of two included rows, the tide stage "no_tide" was left out
\* and the other row was appended.
BlankWitness ==
    /\ mpc = "built"
    /\ Len(df_checklist) = 2
    /\ Len(LoopAttributes) = 1
    /\ \E i \in 1..2 :
        /\ df_checklist[i].ENA_term = "tidal stage"
        /\ cells[<<"sampling", "tidal_stage">>] = "no_tide"
        /\ LoopAttributes[1].tag # "tidal stage"

====
